---- MODULE Spec2Model ----
(***************************************************************************)
(* Model of streamlit_app.py, the Netflix Content Explorer dashboard.      *)
(*                                                                         *)
(* Text is modelled as a sequence of one-character strings, so that        *)
(* substring tests, the regular expression \d+, int() and str.split are    *)
(* computed character by character as Python computes them.                *)
(* A nullable cell is NaN (the empty tuple) or Some(v) (the tuple <<v>>).  *)
(* A CSV cell holding the empty text is read by pandas as NaN, so Some(<<>>)*)
(* never occurs in a table.                                                *)
(***************************************************************************)
EXTENDS Integers, Sequences, FiniteSets, TLC

VARIABLES
    phase,        \* "start": script not yet run; "running": a script run completed; "failed": load_data raised
    csv,          \* the rows of netflix_titles.csv
    df,           \* the table returned by load_data (cached)
    selection,    \* the sidebar widgets' values
    filtered_df,  \* the filtered view of the last script run
    rendered      \* what the last script run put on the page

vars == <<phase, csv, df, selection, filtered_df, rendered>>

----------------------------------------------------------------------------
(* Bounds of the model *)

MaxRows == 2        \* rows of a table of the dashboard specification
MaxFilterRows == 2  \* rows of a table of the filter specification
MaxDurTokens == 4   \* tokens concatenated into a duration text
MaxLoadRows == 2    \* rows of a table of the loader specification
MaxTopRows == 3     \* rows of a table of the top-countries specification

----------------------------------------------------------------------------
(* Nullable cells *)

NaN == << >>
Some(v) == << v >>
notnull(x) == x # NaN
Val(x) == x[1]

----------------------------------------------------------------------------
(* Text helpers: Python's `in`, re.search(r'\d+', .), int(), str.split *)

Digits == {"0", "1", "2", "3", "4", "5", "6", "7", "8", "9"}

DigitVal(c) ==
    CASE c = "0" -> 0 [] c = "1" -> 1 [] c = "2" -> 2 [] c = "3" -> 3
      [] c = "4" -> 4 [] c = "5" -> 5 [] c = "6" -> 6 [] c = "7" -> 7
      [] c = "8" -> 8 [] c = "9" -> 9

\* Python `sub in x` on str: sub occurs as a contiguous substring of x
StrIn(sub, x) ==
    \E i \in 1..(Len(x) - Len(sub) + 1) : SubSeq(x, i, i + Len(sub) - 1) = sub

\* position of the first occurrence of sub in x at or after position from; 0 if none
RECURSIVE StrFind(_, _, _)
StrFind(x, sub, from) ==
    IF from + Len(sub) - 1 > Len(x) THEN 0
    ELSE IF SubSeq(x, from, from + Len(sub) - 1) = sub THEN from
    ELSE StrFind(x, sub, from + 1)

\* leftmost position of a digit at or after position from; 0 if none
RECURSIVE FirstDigit(_, _)
FirstDigit(s, from) ==
    IF from > Len(s) THEN 0
    ELSE IF s[from] \in Digits THEN from
    ELSE FirstDigit(s, from + 1)

\* last position of the digit run that starts at position at (greedy +)
RECURSIVE RunEnd(_, _)
RunEnd(s, at) ==
    IF at + 1 <= Len(s) /\ s[at + 1] \in Digits THEN RunEnd(s, at + 1) ELSE at

\* as re_search_digits with the pattern r'\d': the match is one digit
re_search_one_digit(s) ==
    LET i == FirstDigit(s, 1)
    IN  IF i = 0 THEN NaN ELSE Some(<< s[i] >>)

\* re.search(r'\d+', s): NaN stands for None, Some(text) for a match whose group() is text
re_search_digits(s) ==
    LET i == FirstDigit(s, 1)
    IN  IF i = 0 THEN NaN ELSE Some(SubSeq(s, i, RunEnd(s, i)))

\* int(text) of a non-empty digit text; Python integers do not overflow
RECURSIVE int(_)
int(t) ==
    IF Len(t) = 0 THEN 0
    ELSE 10 * int(SubSeq(t, 1, Len(t) - 1)) + DigitVal(t[Len(t)])

\* x.split(sep): the pieces of x between the non-overlapping occurrences of sep, left to right
RECURSIVE str_split(_, _)
str_split(x, sep) ==
    LET i == StrFind(x, sep, 1)
    IN  IF i = 0 THEN << x >>
        ELSE << SubSeq(x, 1, i - 1) >> \o str_split(SubSeq(x, i + Len(sep), Len(x)), sep)

----------------------------------------------------------------------------
(* Literals of the source *)

min == <<"m", "i", "n">>
Season == <<"S", "e", "a", "s", "o", "n">>
Movie == <<"M", "o", "v", "i", "e">>
TVShow == <<"T", "V", " ", "S", "h", "o", "w">>
CommaSpace == <<",", " ">>

----------------------------------------------------------------------------
(* load_data *)

\* lambda d: int(re.search(r'\d+', d).group()) if pd.notnull(d) and unit in d else np.nan
\* raised: .group() on None raises AttributeError
DurationLambda(d, unit) ==
    IF notnull(d) /\ StrIn(unit, Val(d))
    THEN LET m == re_search_digits(Val(d))
         IN  IF m = NaN THEN [raised |-> TRUE, value |-> NaN]
             ELSE [raised |-> FALSE, value |-> Some(int(Val(m)))]
    ELSE [raised |-> FALSE, value |-> NaN]

duration_minutes(d) == DurationLambda(d, min)
num_seasons(d) == DurationLambda(d, Season)

\* Series.apply raises as soon as the lambda raises on a row
LoadRaises(table) ==
    \E i \in 1..Len(table) :
        duration_minutes(table[i].duration).raised \/ num_seasons(table[i].duration).raised

load_data(table) ==
    [i \in 1..Len(table) |->
        [type |-> table[i].type,
         country |-> table[i].country,
         listed_in |-> table[i].listed_in,
         rating |-> table[i].rating,
         release_year |-> table[i].release_year,
         duration |-> table[i].duration,
         duration_minutes |-> duration_minutes(table[i].duration).value,
         num_seasons |-> num_seasons(table[i].duration).value]]

----------------------------------------------------------------------------
(* Sidebar widgets *)

RECURSIVE SeqToSet(_)
SeqToSet(s) == IF s = << >> THEN {} ELSE {Head(s)} \cup SeqToSet(Tail(s))

\* Series.dropna(): the non-null cells of a column, unwrapped, in row order
RECURSIVE dropna(_)
dropna(col) ==
    IF col = << >> THEN << >>
    ELSE IF notnull(Head(col)) THEN << Val(Head(col)) >> \o dropna(Tail(col))
    ELSE dropna(Tail(col))

\* Series.str.split(', ').explode(): every piece of every cell, in order
RECURSIVE split_explode(_)
split_explode(col) ==
    IF col = << >> THEN << >>
    ELSE str_split(Head(col), CommaSpace) \o split_explode(Tail(col))

Column(table, name) == [i \in 1..Len(table) |-> table[i][name]]

\* options of the four multiselects
type_options(table) == {table[i].type : i \in 1..Len(table)}
country_options(table) == SeqToSet(split_explode(dropna(Column(table, "country"))))
genre_options(table) == SeqToSet(split_explode(dropna(Column(table, "listed_in"))))
rating_options(table) == SeqToSet(dropna(Column(table, "rating")))

\* bounds of the slider: int(df['release_year'].min()), int(df['release_year'].max())
year_min(table) ==
    CHOOSE y \in {table[i].release_year : i \in 1..Len(table)} :
        \A i \in 1..Len(table) : y <= table[i].release_year
year_max(table) ==
    CHOOSE y \in {table[i].release_year : i \in 1..Len(table)} :
        \A i \in 1..Len(table) : y >= table[i].release_year

\* the slider's initial value (2010, 2021)
DefaultLow == 2010
DefaultHigh == 2021

\* the widgets' values on the first script run
default_selection(table) ==
    [types |-> type_options(table),
     countries |-> {},
     genres |-> {},
     ratings |-> {},
     year_range |-> << DefaultLow, DefaultHigh >>]

----------------------------------------------------------------------------
(* Apply filters *)

\* frame[mask], the rows whose mask entry is True in order, is SelectSeq(frame, mask)

\* as TypeStep with the step skipped when nothing is selected (if types:)
TypeStepEmptyMeansAll(frame, types) ==
    IF types # {}
    THEN LET isin(r) == r.type \in types
         IN  SelectSeq(frame, isin)
    ELSE frame

\* filtered_df = df[df['type'].isin(types)]
TypeStep(frame, types) ==
    LET isin(r) == r.type \in types
    IN  SelectSeq(frame, isin)

\* if countries: notna, then any(c in x for c in countries)
CountryStep(frame, countries) ==
    IF countries # {}
    THEN LET notna(r) == notnull(r.country)
             anyin(r) == \E c \in countries : StrIn(c, Val(r.country))
         IN  SelectSeq(SelectSeq(frame, notna), anyin)
    ELSE frame

\* if genres: notna, then any(g in x for g in genres)
GenreStep(frame, genres) ==
    IF genres # {}
    THEN LET notna(r) == notnull(r.listed_in)
             anyin(r) == \E g \in genres : StrIn(g, Val(r.listed_in))
         IN  SelectSeq(SelectSeq(frame, notna), anyin)
    ELSE frame

\* if ratings: filtered_df['rating'].isin(ratings)
RatingStep(frame, ratings) ==
    IF ratings # {}
    THEN LET isin(r) == notnull(r.rating) /\ Val(r.rating) \in ratings
         IN  SelectSeq(frame, isin)
    ELSE frame

\* as YearStep with the upper end excluded (release_year < year_range[1])
YearStepExclusive(frame, year_range) ==
    LET inrange(r) == r.release_year >= year_range[1] /\ r.release_year < year_range[2]
    IN  SelectSeq(frame, inrange)

\* as YearStep with the mask taken by position from the rows one place earlier
\* (mask.shift(1)): row i is kept when row i - 1 is in range
YearStepShiftedMask(frame, year_range) ==
    LET inrange(r) == r.release_year >= year_range[1] /\ r.release_year <= year_range[2]
        mask == [i \in 1..Len(frame) |-> i > 1 /\ inrange(frame[i - 1])]
        kept(i) == Cardinality({j \in 1..i : mask[j]})
        n == kept(Len(frame))
    IN  [k \in 1..n |-> frame[CHOOSE i \in 1..Len(frame) : mask[i] /\ kept(i) = k]]

\* (release_year >= year_range[0]) & (release_year <= year_range[1])
YearStep(frame, year_range) ==
    LET inrange(r) == r.release_year >= year_range[1] /\ r.release_year <= year_range[2]
    IN  SelectSeq(frame, inrange)

\* lines 36-45 applied to a frame
ApplyFilters(frame, sel) ==
    YearStep(
        RatingStep(
            GenreStep(
                CountryStep(
                    TypeStep(frame, sel.types),
                    sel.countries),
                sel.genres),
            sel.ratings),
        sel.year_range)

----------------------------------------------------------------------------
(* Aggregation and rendering *)

\* the distinct elements of s in order of first appearance (Series.unique)
RECURSIVE unique(_)
unique(s) ==
    IF s = << >> THEN << >>
    ELSE LET front == unique(SubSeq(s, 1, Len(s) - 1))
             last == s[Len(s)]
         IN  IF \E i \in 1..Len(front) : front[i] = last THEN front ELSE Append(front, last)

Occurrences(s, x) == Cardinality({i \in 1..Len(s) : s[i] = x})

\* one <<value, count>> per distinct value, in order of first appearance
Tally(s) == LET u == unique(s) IN [i \in 1..Len(u) |-> << u[i], Occurrences(s, u[i]) >>]

\* stable sort by count, largest first: e goes after every entry whose count is >= its own
RECURSIVE InsertByCount(_, _)
InsertByCount(sorted, e) ==
    IF sorted = << >> THEN << e >>
    ELSE IF Head(sorted)[2] >= e[2] THEN << Head(sorted) >> \o InsertByCount(Tail(sorted), e)
    ELSE << e >> \o sorted

RECURSIVE SortByCount(_)
SortByCount(t) ==
    IF t = << >> THEN << >>
    ELSE InsertByCount(SortByCount(SubSeq(t, 1, Len(t) - 1)), t[Len(t)])

\* as value_counts with sort=False: counts in order of first appearance
value_counts_unsorted(s) == Tally(s)

\* Series.value_counts(): counts, largest first (ties in order of first appearance)
value_counts(s) == SortByCount(Tally(s))

\* Series.head(n)
head(s, n) == SubSeq(s, 1, IF Len(s) < n THEN Len(s) ELSE n)

\* the 10 of head(10)
TopK == 10

\* filtered_df['country'].dropna().str.split(', ').explode().value_counts().head(10)
top_countries(frame) ==
    head(value_counts(split_explode(dropna(Column(frame, "country")))), TopK)

\* as countplot_type over filtered_df['type'].unique(): every bar counts one
countplot_unique_types(frame) == Tally(unique(Column(frame, "type")))

\* sns.countplot(data=filtered_df, x='type'): one bar per type, its height the number of rows
countplot_type(frame) == Tally(Column(frame, "type"))

\* filtered_df['type'].str.contains(pat).any()
type_contains_any(frame, pat) == \E i \in 1..Len(frame) : StrIn(pat, frame[i].type)

\* as kind_values with the rows chosen by str.contains(kind) instead of == kind
kind_values_contains(frame, kind, column) ==
    LET iskind(r) == StrIn(kind, r.type)
    IN  dropna(Column(SelectSeq(frame, iskind), column))

\* filtered_df[filtered_df['type'] == kind][column].dropna()
kind_values(frame, kind, column) ==
    LET iskind(r) == r.type = kind
    IN  dropna(Column(SelectSeq(frame, iskind), column))

\* the page before any script run completed
NoPage == [n_titles |-> 0, type_counts |-> << >>, top_countries |-> << >>,
           movie_subheader |-> FALSE, movie_hist |-> << >>, movie_insight |-> FALSE,
           tv_subheader |-> FALSE, tv_chart |-> << >>, tv_insight |-> FALSE]

\* lines 47-103: what one script run puts on the page for a filtered view.
\* movie_hist / tv_chart: the values plotted; << >> when st.pyplot is not called
Render(frame) ==
    LET movie_durations == kind_values(frame, Movie, "duration_minutes")
        tv_seasons == kind_values(frame, TVShow, "num_seasons")
        movie_section == type_contains_any(frame, Movie)
        tv_section == type_contains_any(frame, TVShow)
    IN  [n_titles |-> Len(frame),
         type_counts |-> countplot_type(frame),
         top_countries |-> top_countries(frame),
         movie_subheader |-> movie_section,
         movie_hist |-> IF movie_section /\ movie_durations # << >> THEN movie_durations ELSE << >>,
         movie_insight |-> TRUE,
         tv_subheader |-> tv_section,
         tv_chart |-> IF tv_section /\ tv_seasons # << >> THEN tv_seasons ELSE << >>,
         tv_insight |-> TRUE]

----------------------------------------------------------------------------
(* Input data *)

\* all sequences over S of length lo..hi
SeqsOf(S, lo, hi) == UNION {[1..n -> S] : n \in lo..hi}

CsvRow(t, c, g, r, y, d) ==
    [type |-> t, country |-> c, listed_in |-> g, rating |-> r, release_year |-> y, duration |-> d]

India == <<"I", "n", "d", "i", "a">>
UnitedStates == <<"U", "n", "i", "t", "e", "d", " ", "S", "t", "a", "t", "e", "s">>
Dramas == <<"D", "r", "a", "m", "a", "s">>
Comedies == <<"C", "o", "m", "e", "d", "i", "e", "s">>
PG13 == <<"P", "G", "-", "1", "3">>
TVMA == <<"T", "V", "-", "M", "A">>

\* rows of the catalog the dashboard and filter specifications draw their tables from
RowA == CsvRow(Movie, Some(<<"U", "n", "i", "t", "e", "d", " ", "S", "t", "a", "t", "e", "s", ",", " ", "I", "n", "d", "i", "a">>), Some(<<"D", "r", "a", "m", "a", "s", ",", " ", "C", "o", "m", "e", "d", "i", "e", "s">>),
               Some(PG13), 2021, Some(<<"9", "0", " ", "m", "i", "n">>))
RowB == CsvRow(TVShow, Some(India), Some(<<"T", "V", " ", "D", "r", "a", "m", "a", "s">>),
               Some(TVMA), 2021, Some(<<"2", " ", "S", "e", "a", "s", "o", "n", "s">>))
RowC == CsvRow(Movie, NaN, Some(Comedies), NaN, 2010, NaN)
RowD == CsvRow(TVShow, Some(India), NaN, Some(PG13), 2005, NaN)
RowE == CsvRow(Movie, NaN, NaN, NaN, 2010, Some(<<"m", "i", "n", "u", "t", "e", "s">>))

GoodRows == {RowA, RowB, RowC, RowD}
CatalogRows == GoodRows \cup {RowE}

\* st.slider raises unless its initial value lies within its bounds
SliderAccepts(table) == year_min(table) <= DefaultLow /\ DefaultHigh <= year_max(table)

DashboardCsvs == {t \in SeqsOf(CatalogRows, 1, MaxRows) : SliderAccepts(t)}

----------------------------------------------------------------------------
(* The dashboard: one script run per widget change *)

NoSelection == [types |-> {}, countries |-> {}, genres |-> {}, ratings |-> {},
                year_range |-> << DefaultLow, DefaultHigh >>]

Init ==
    /\ phase = "start"
    /\ csv \in DashboardCsvs
    /\ df = << >>
    /\ selection = NoSelection
    /\ filtered_df = << >>
    /\ rendered = NoPage

\* first script run: load_data succeeds, the widgets take their defaults, filter, render
FirstRun ==
    /\ phase = "start"
    /\ ~LoadRaises(csv)
    /\ df' = load_data(csv)
    /\ selection' = default_selection(df')
    /\ filtered_df' = ApplyFilters(df', selection')
    /\ rendered' = Render(filtered_df')
    /\ phase' = "running"
    /\ UNCHANGED csv

\* load_data raises (line 21 or 22): the script stops at line 25 and nothing is cached
LoadFails ==
    /\ phase = "start"
    /\ LoadRaises(csv)
    /\ phase' = "failed"
    /\ UNCHANGED << csv, df, selection, filtered_df, rendered >>

\* as Rerun with the filter steps assigned back to df (df = df[...]) on the shared table
RerunInPlace(sel) ==
    /\ phase = "running"
    /\ selection' = sel
    /\ df' = ApplyFilters(df, sel)
    /\ filtered_df' = df'
    /\ rendered' = Render(filtered_df')
    /\ UNCHANGED << phase, csv >>

\* a widget changed to sel: the script runs again on the cached table
Rerun(sel) ==
    /\ phase = "running"
    /\ selection' = sel
    /\ filtered_df' = ApplyFilters(df, sel)
    /\ rendered' = Render(filtered_df')
    /\ UNCHANGED << phase, csv, df >>

Toggle(set, x) == IF x \in set THEN set \ {x} ELSE set \cup {x}

SelectType ==
    /\ phase = "running"
    /\ \E t \in type_options(df) :
           Rerun([selection EXCEPT !.types = Toggle(@, t)])

SelectCountry ==
    /\ phase = "running"
    /\ \E c \in country_options(df) :
           Rerun([selection EXCEPT !.countries = Toggle(@, c)])

SelectGenre ==
    /\ phase = "running"
    /\ \E g \in genre_options(df) :
           Rerun([selection EXCEPT !.genres = Toggle(@, g)])

SelectRating ==
    /\ phase = "running"
    /\ \E r \in rating_options(df) :
           Rerun([selection EXCEPT !.ratings = Toggle(@, r)])

\* the positions the slider's ends are dragged to: its bounds and its initial value
YearStops(table) == {year_min(table), DefaultLow, DefaultHigh, year_max(table)}

SelectYearRange ==
    /\ phase = "running"
    /\ \E lo \in YearStops(df), hi \in YearStops(df) :
           /\ lo <= hi
           /\ << lo, hi >> # selection.year_range
           /\ Rerun([selection EXCEPT !.year_range = << lo, hi >>])

Next ==
    \/ FirstRun
    \/ LoadFails
    \/ SelectType
    \/ SelectCountry
    \/ SelectGenre
    \/ SelectRating
    \/ SelectYearRange

Spec == Init /\ [][Next]_vars

----------------------------------------------------------------------------
(* load_data on its own, over many duration texts *)

DurTokens == {<<"1">>, <<"2">>, <<" ", "m", "i", "n">>, <<" ", "S", "e", "a", "s", "o", "n">>}

RECURSIVE Concat(_)
Concat(ts) == IF ts = << >> THEN << >> ELSE Head(ts) \o Concat(Tail(ts))

\* the non-empty texts made of at most MaxDurTokens tokens
DurationTexts == {Concat(ts) : ts \in SeqsOf(DurTokens, 1, MaxDurTokens)}

DurationCells == {NaN} \cup {Some(t) : t \in DurationTexts}

\* durations of the rows that precede the last row of a table
LeadingCells == {NaN, Some(<<"9", "0", " ", "m", "i", "n">>), Some(<<"3", " ", "S", "e", "a", "s", "o", "n", "s">>)}

DurationRow(d) == CsvRow(Movie, NaN, NaN, NaN, 2015, d)

LoadCsvs ==
    {[i \in 1..(Len(lead) + 1) |-> IF i <= Len(lead) THEN DurationRow(lead[i]) ELSE DurationRow(d)] :
        lead \in SeqsOf(LeadingCells, 0, MaxLoadRows - 1), d \in DurationCells}

InitLoad ==
    /\ phase = "start"
    /\ csv \in LoadCsvs
    /\ df = << >>
    /\ selection = NoSelection
    /\ filtered_df = << >>
    /\ rendered = NoPage

\* df = load_data() returns
LoadData ==
    /\ phase = "start"
    /\ ~LoadRaises(csv)
    /\ df' = load_data(csv)
    /\ phase' = "loaded"
    /\ UNCHANGED << csv, selection, filtered_df, rendered >>

NextLoad == LoadData \/ LoadFails

SpecLoad == InitLoad /\ [][NextLoad]_vars

----------------------------------------------------------------------------
(* The filter steps on their own, over arbitrary selections *)

FilterSelections ==
    [types : SUBSET {Movie, TVShow},
     countries : SUBSET {India, UnitedStates},
     genres : SUBSET {Dramas, Comedies},
     ratings : SUBSET {PG13, TVMA},
     year_range : {2005, 2010, 2021} \X {2005, 2010, 2021}]

InitFilter ==
    /\ phase = "loaded"
    /\ csv \in SeqsOf(GoodRows, 1, MaxFilterRows)
    /\ df = load_data(csv)
    /\ selection \in FilterSelections
    /\ filtered_df = << >>
    /\ rendered = NoPage

\* lines 36-45 on the loaded table
Filter ==
    /\ phase = "loaded"
    /\ filtered_df' = ApplyFilters(df, selection)
    /\ phase' = "filtered"
    /\ UNCHANGED << csv, df, selection, rendered >>

\* lines 36-45 on the filtered view, with the same selection
Refilter ==
    /\ phase = "filtered"
    /\ filtered_df' = ApplyFilters(filtered_df, selection)
    /\ phase' = "refiltered"
    /\ UNCHANGED << csv, df, selection, rendered >>

NextFilter == Filter \/ Refilter

SpecFilter == InitFilter /\ [][NextFilter]_vars

----------------------------------------------------------------------------
(* The aggregates and charts on their own, over arbitrary filtered views *)

ShortMovie == <<"S", "h", "o", "r", "t", " ", "M", "o", "v", "i", "e">>

\* countries are abbreviated to one letter
ViewRows ==
    {CsvRow(Movie, Some(<<"A", ",", " ", "B", ",", " ", "C", ",", " ", "D", ",", " ", "E", ",", " ", "F">>), NaN, NaN, 2015, Some(<<"9", "0", " ", "m", "i", "n">>)),
     CsvRow(TVShow, Some(<<"G", ",", " ", "H", ",", " ", "I", ",", " ", "J", ",", " ", "K", ",", " ", "L">>), NaN, NaN, 2015, Some(<<"2", " ", "S", "e", "a", "s", "o", "n", "s">>)),
     CsvRow(Movie, Some(<<"L", ",", " ", "K">>), NaN, NaN, 2015, NaN),
     CsvRow(TVShow, NaN, NaN, NaN, 2015, NaN),
     CsvRow(ShortMovie, Some(<<"M">>), NaN, NaN, 2015, Some(<<"1", "5", " ", "m", "i", "n">>))}

\* the view is what lines 36-45 leave of a loaded table for some choice of types
InitRender ==
    /\ phase = "filtered"
    /\ csv \in SeqsOf(ViewRows, 1, MaxTopRows)
    /\ df = load_data(csv)
    /\ \E ts \in SUBSET type_options(df) :
           selection = [default_selection(df) EXCEPT !.types = ts]
    /\ filtered_df = ApplyFilters(df, selection)
    /\ rendered = NoPage

\* lines 47-103 on a filtered view
Draw ==
    /\ phase = "filtered"
    /\ rendered' = Render(filtered_df)
    /\ phase' = "rendered"
    /\ UNCHANGED << csv, df, selection, filtered_df >>

NextRender == Draw

SpecRender == InitRender /\ [][NextRender]_vars

----------------------------------------------------------------------------
(* Vocabulary of the properties *)

HasDigit(s) == \E k \in 1..Len(s) : s[k] \in Digits

\* <<a, b>>: the leftmost maximal run of digits of s occupies positions a..b
FirstDigitRun(s) ==
    CHOOSE ab \in (1..Len(s)) \X (1..Len(s)) :
        /\ ab[1] <= ab[2]
        /\ \A k \in ab[1]..ab[2] : s[k] \in Digits
        /\ \A k \in 1..(ab[1] - 1) : s[k] \notin Digits
        /\ ab[2] = Len(s) \/ s[ab[2] + 1] \notin Digits

RECURSIVE Pow10(_)
Pow10(n) == IF n = 0 THEN 1 ELSE 10 * Pow10(n - 1)

\* the number written in decimal at positions a..b of s
RECURSIVE Decimal(_, _, _)
Decimal(s, a, b) ==
    IF a > b THEN 0 ELSE DigitVal(s[a]) * Pow10(b - a) + Decimal(s, a + 1, b)

FirstDigitRunValue(s) == LET ab == FirstDigitRun(s) IN Decimal(s, ab[1], ab[2])

\* the row satisfies every condition of the selection at once
RowPasses(r, sel) ==
    /\ r.type \in sel.types
    /\ sel.countries = {} \/ (notnull(r.country) /\ \E c \in sel.countries : StrIn(c, Val(r.country)))
    /\ sel.genres = {} \/ (notnull(r.listed_in) /\ \E g \in sel.genres : StrIn(g, Val(r.listed_in)))
    /\ sel.ratings = {} \/ (notnull(r.rating) /\ Val(r.rating) \in sel.ratings)
    /\ sel.year_range[1] <= r.release_year
    /\ r.release_year <= sel.year_range[2]

\* the rows of table that satisfy the selection, in table order
ExpectedView(table, sel) == LET keep(r) == RowPasses(r, sel) IN SelectSeq(table, keep)

\* occurrences of token among the pieces of the non-null country cells of frame
RECURSIVE TokenCount(_, _)
TokenCount(frame, token) ==
    IF frame = << >> THEN 0
    ELSE (IF notnull(Head(frame).country)
          THEN Occurrences(str_split(Val(Head(frame).country), CommaSpace), token)
          ELSE 0) + TokenCount(Tail(frame), token)

AllTokens(frame) ==
    UNION {SeqToSet(str_split(Val(frame[i].country), CommaSpace)) :
              i \in {j \in 1..Len(frame) : notnull(frame[j].country)}}

RECURSIVE SumCounts(_)
SumCounts(t) == IF t = << >> THEN 0 ELSE Head(t)[2] + SumCounts(Tail(t))

HasMovieDuration(frame) ==
    \E i \in 1..Len(frame) : frame[i].type = Movie /\ notnull(frame[i].duration_minutes)

HasTVSeasons(frame) ==
    \E i \in 1..Len(frame) : frame[i].type = TVShow /\ notnull(frame[i].num_seasons)

----------------------------------------------------------------------------
(* Properties of load_data (SpecLoad) *)

\* C1: in every row produced by load_data, whatever its duration text,
\* duration_minutes and num_seasons are never both non-null.
C1_NeverBothDerived ==
    phase = "loaded" =>
        \A i \in 1..Len(df) :
            ~(notnull(df[i].duration_minutes) /\ notnull(df[i].num_seasons))

\* C4: deriving the two fields never raises; a row whose duration is null or has no
\* digit run gets two null fields and loading continues.
C4_DerivationNeverRaises ==
    /\ phase # "failed"
    /\ phase = "loaded" =>
          \A i \in 1..Len(df) :
              (df[i].duration = NaN \/ ~HasDigit(Val(df[i].duration))) =>
                  (df[i].duration_minutes = NaN /\ df[i].num_seasons = NaN)

\* C5: for a non-null duration text with a digit run, duration_minutes is the value of
\* the first contiguous digit run when the text contains "min" and null otherwise, and
\* num_seasons is that value when the text contains "Season" and null otherwise.
C5_DerivedFromFirstDigitRun ==
    phase = "loaded" =>
        \A i \in 1..Len(df) :
            LET d == df[i].duration
            IN  (notnull(d) /\ HasDigit(Val(d))) =>
                  /\ df[i].duration_minutes =
                        IF StrIn(min, Val(d)) THEN Some(FirstDigitRunValue(Val(d))) ELSE NaN
                  /\ df[i].num_seasons =
                        IF StrIn(Season, Val(d)) THEN Some(FirstDigitRunValue(Val(d))) ELSE NaN

\* a table was loaded whose last row reads "12 min2": two digit runs, the first of two digits
C5_Witness ==
    /\ phase = "loaded"
    /\ Len(df) = 2
    /\ df[2].duration = Some(<<"1", "2", " ", "m", "i", "n", "2">>)
    /\ df[2].duration_minutes = Some(12)
    /\ df[2].num_seasons = NaN

----------------------------------------------------------------------------
(* Properties of the filter steps (SpecFilter) *)

----------------------------------------------------------------------------
(* Properties of the aggregates and charts (SpecRender) *)

\* C7: the top-countries aggregate has at most 10 entries, in non-increasing order of
\* count; an entry's count is the number of occurrences of its token among the pieces of
\* the non-null country cells split on ", "; no token left out has a higher count than
\* a listed one.
C7_TopCountries ==
    phase = "rendered" =>
        LET top == rendered.top_countries
            listed == {top[i][1] : i \in 1..Len(top)}
        IN  /\ Len(top) <= 10
            /\ \A i, j \in 1..Len(top) : i < j => top[i][2] >= top[j][2]
            /\ \A i \in 1..Len(top) : top[i][2] = TokenCount(filtered_df, top[i][1])
            /\ \A c \in AllTokens(filtered_df) \ listed :
                   \A i \in 1..Len(top) : TokenCount(filtered_df, c) <= top[i][2]

\* ten entries are listed, some token is left out, and the counts are not all equal
C7_Witness ==
    /\ phase = "rendered"
    /\ Len(rendered.top_countries) = 10
    /\ Cardinality(AllTokens(filtered_df)) > 10
    /\ rendered.top_countries[1][2] > rendered.top_countries[10][2]

\* C8: the per-type counts of the Titles-by-Type chart sum to the number of rows of the
\* filtered view, the value reported as "Number of titles".
C8_TypeCountsSum ==
    phase = "rendered" =>
        /\ SumCounts(rendered.type_counts) = rendered.n_titles
        /\ rendered.n_titles = Len(filtered_df)

\* a chart with several bars, one of them counting more than one row
C8_Witness ==
    /\ phase = "rendered"
    /\ Len(rendered.type_counts) >= 2
    /\ \E i \in 1..Len(rendered.type_counts) : rendered.type_counts[i][2] >= 2

\* C9 as claimed: each chart is drawn iff the view has a row of its type with a non-null
\* derived field, and without such a row nothing of the chart's section is rendered.
C9_NothingRenderedWithoutData ==
    phase = "rendered" =>
        /\ (rendered.movie_hist # << >>) <=> HasMovieDuration(filtered_df)
        /\ (rendered.tv_chart # << >>) <=> HasTVSeasons(filtered_df)
        /\ ~HasMovieDuration(filtered_df) =>
              (~rendered.movie_subheader /\ ~rendered.movie_insight)
        /\ ~HasTVSeasons(filtered_df) =>
              (~rendered.tv_subheader /\ ~rendered.tv_insight)

\* C9 amended: each chart is drawn iff the view has a row of its type with a non-null
\* derived field; the section's insight line is rendered in every case, and its subheader
\* whenever some row's type contains "Movie" (resp. "TV Show").
C9_ChartDrawnIffData ==
    phase = "rendered" =>
        /\ (rendered.movie_hist # << >>) <=> HasMovieDuration(filtered_df)
        /\ (rendered.tv_chart # << >>) <=> HasTVSeasons(filtered_df)
        /\ rendered.movie_insight /\ rendered.tv_insight
        /\ rendered.movie_subheader <=>
              \E i \in 1..Len(filtered_df) : StrIn(Movie, filtered_df[i].type)
        /\ rendered.tv_subheader <=>
              \E i \in 1..Len(filtered_df) : StrIn(TVShow, filtered_df[i].type)

\* the view has a row whose type contains "Movie" and a TV show, none with a derived
\* field of its own type that the charts would plot
C9_Witness ==
    /\ phase = "rendered"
    /\ filtered_df # << >>
    /\ ~HasMovieDuration(filtered_df) /\ ~HasTVSeasons(filtered_df)
    /\ rendered.movie_subheader /\ rendered.tv_subheader
    /\ rendered.movie_hist = << >> /\ rendered.tv_chart = << >>

----------------------------------------------------------------------------
(* Properties of the dashboard (Spec) *)

\* the rows of table that satisfy every condition of the selection except the one on type
ViewOfAllTypes(table, sel) ==
    ExpectedView(table, [sel EXCEPT !.types = type_options(table)])

C10_TableKeptViewFromCurrentSelection ==
    [][phase = "running" =>
          (df' = df /\ filtered_df' = ExpectedView(df, selection'))]_vars

\* at least two widgets were changed, and the view keeps some rows and drops others
C10_Witness ==
    /\ phase = "running"
    /\ selection.countries # {}
    /\ selection.year_range # << DefaultLow, DefaultHigh >>
    /\ filtered_df # << >>
    /\ Len(filtered_df) < Len(df)

====
